---- MODULE Spec2Model ----
(***************************************************************************)
(* place2dxf: the /dwg request handler (make_dxf) of main.py and the       *)
(* helpers it calls, as a state machine over a fixed set of requests.      *)
(* Strings are sequences of one-character strings; coordinates are         *)
(* integers; the external services answer nondeterministically from the    *)
(* outcome sets of an environment record.                                  *)
(***************************************************************************)
EXTENDS Integers, Sequences, FiniteSets, TLC

\* ------------------------------------------------------------------ bounds
MaxLen == 3
MaxBufLen == 2
MaxBldg == 2
MaxRoads == 1

\* --------------------------------------------------------------- constants
DEFAULT_BUFFER == 250

Reqs == {1, 2}

NoArg == <<"<absent>">>

PlaceChars == {"a", " ", "/"}
BufChars == {"-", "0", "5"}

RECURSIVE StringsUpTo(_, _)
StringsUpTo(chars, n) ==
    IF n = 0 THEN {<<>>}
    ELSE LET shorter == StringsUpTo(chars, n - 1)
         IN  shorter \cup {Append(s, c) : s \in shorter, c \in chars}

PlaceArgs == StringsUpTo(PlaceChars, MaxLen) \cup {NoArg}
BufferArgs == StringsUpTo(BufChars, MaxBufLen) \cup {NoArg}

\* ------------------------------------------------------------ pure helpers
\* request.args.get(name, default)
ArgsGet(a, default) == IF a = NoArg THEN default ELSE a

IsSpace(c) == c = " "

RECURSIVE LStrip(_)
LStrip(s) == IF s # <<>> /\ IsSpace(Head(s)) THEN LStrip(Tail(s)) ELSE s

RECURSIVE RStrip(_)
RStrip(s) ==
    IF s # <<>> /\ IsSpace(s[Len(s)]) THEN RStrip(SubSeq(s, 1, Len(s) - 1)) ELSE s

\* str.strip()
NoStrip(s) == s
Strip(s) == RStrip(LStrip(s))

\* `if not place`
PlaceMissing(place) == place = <<>>

\* place.replace(' ', '_')
ReplaceSpaces(s) == [i \in 1..Len(s) |-> IF s[i] = " " THEN "_" ELSE s[i]]

\* f"{place.replace(' ', '_')}.dxf"
FName(place) == ReplaceSpaces(place) \o <<".", "d", "x", "f">>

\* f"/files/{fname}"
DownloadUrl(fname) == <<"/", "f", "i", "l", "e", "s", "/">> \o fname

\* float(): an optional sign and at least one decimal digit
Digit(c) == IF c = "5" THEN 5 ELSE 0

RECURSIVE DecVal(_)
DecVal(s) ==
    IF s = <<>> THEN 0
    ELSE 10 * DecVal(SubSeq(s, 1, Len(s) - 1)) + Digit(s[Len(s)])

IsDigits(s) == s # <<>> /\ \A i \in 1..Len(s) : s[i] \in {"0", "5"}

FloatOk(s) == IF s # <<>> /\ Head(s) = "-" THEN IsDigits(Tail(s)) ELSE IsDigits(s)

Float(s) == IF Head(s) = "-" THEN 0 - DecVal(Tail(s)) ELSE DecVal(s)

\* float(request.args.get("buffer", DEFAULT_BUFFER))
BufferOk(b) == b = NoArg \/ FloatOk(b)
BufferValue(b) == IF b = NoArg THEN DEFAULT_BUFFER ELSE Float(b)

Min(S) == CHOOSE m \in S : \A n \in S : m <= n
Max(S) == CHOOSE m \in S : \A n \in S : m >= n

\* pyproj Transformer 4326 -> TARGET_CRS (always_xy): an exactly invertible
\* linear map standing for the projection around the geocoded point
Transform(lon, lat) == <<2 * lon + lat, lon + lat>>
\* TARGET_CRS -> 4326 of one vertex, as to_crs(4326) applies it
ToGeo(v) == <<v[1] - v[2], 2 * v[2] - v[1]>>

\* shapely.box(minx, miny, maxx, maxy): its four corners, in shapely's order
Box(minx, miny, maxx, maxy) ==
    << <<maxx, miny>>, <<maxx, maxy>>, <<minx, maxy>>, <<minx, miny>> >>

\* shapely.box(x-buf, y-buf, x+buf, y+buf)
Aoi(xy, buf) == Box(xy[1] - buf, xy[2] - buf, xy[1] + buf, xy[2] + buf)

\* GeoSeries.total_bounds: (minx, miny, maxx, maxy) over the vertices
TotalBounds(ring) ==
    LET xs == {ring[i][1] : i \in 1..Len(ring)}
        ys == {ring[i][2] : i \in 1..Len(ring)}
    IN  <<Min(xs), Min(ys), Max(xs), Max(ys)>>

\* GeoSeries([box], crs=TARGET_CRS).to_crs(4326).total_bounds
BBox4326(aoi) == TotalBounds([i \in 1..Len(aoi) |-> ToGeo(aoi[i])])

\* ------------------------------------------------------------- file paths
\* tempfile.gettempdir()
TmpDir == <<"/", "t", "m", "p">>

\* directories that exist: the root and the temporary directory
Dirs == { <<>>, << <<"t", "m", "p">> >> }

\* os.path.join(tmp, fname): an absolute second part discards the first
PathJoin(tmp, fname) ==
    IF fname # <<>> /\ Head(fname) = "/" THEN fname ELSE tmp \o <<"/">> \o fname

RECURSIVE SplitPath(_)
SplitPath(s) ==
    IF \A i \in 1..Len(s) : s[i] # "/" THEN <<s>>
    ELSE LET i == Min({j \in 1..Len(s) : s[j] = "/"})
         IN  <<SubSeq(s, 1, i - 1)>> \o SplitPath(SubSeq(s, i + 1, Len(s)))

Parent(dir) == IF dir = <<>> THEN <<>> ELSE SubSeq(dir, 1, Len(dir) - 1)

\* the directory walk of open(): every component before the last must be an
\* existing directory; "" and "." stay, ".." goes up
RECURSIVE WalkDir(_, _)
WalkDir(cur, comps) ==
    IF comps = <<>> THEN [ok |-> TRUE, dir |-> cur]
    ELSE LET c == Head(comps)
         IN  IF c = <<>> \/ c = <<".">> THEN WalkDir(cur, Tail(comps))
             ELSE IF c = <<".", ".">> THEN WalkDir(Parent(cur), Tail(comps))
             ELSE IF Append(cur, c) \in Dirs THEN WalkDir(Append(cur, c), Tail(comps))
             ELSE [ok |-> FALSE, dir |-> cur]

\* the file that os.path.join(tmp, fname) names: <<directory, name>>
FileOf(fname) ==
    LET comps == SplitPath(PathJoin(TmpDir, fname))
        w == WalkDir(<<>>, SubSeq(comps, 1, Len(comps) - 1))
    IN  [ok |-> w.ok, key |-> <<w.dir, comps[Len(comps)]>>]

\* --------------------------------------------------------------- geometry
\* a polygon is its number of interior rings; a geometry is a kind with the
\* polygons it is made of
Polygon(holes) == [kind |-> "Polygon", parts |-> <<holes>>]
MultiPolygon(parts) == [kind |-> "MultiPolygon", parts |-> parts]
OtherGeom == [kind |-> "LineString", parts |-> <<>>]

\* a ring is <<feature, part, k>>: k = 0 the exterior, k > 0 the k-th interior
Polyline(layer, ring) == [layer |-> layer, ring |-> ring]

\* add_poly(poly): the exterior ring only
AddPolyWithHoles(gi, pi, holes) ==
    [k \in 1..(holes + 1) |-> Polyline("BLDG", <<gi, pi, k - 1>>)]
AddPoly(gi, pi, holes) == <<Polyline("BLDG", <<gi, pi, 0>>)>>

RECURSIVE AddParts(_, _, _)
AddParts(gi, parts, pi) ==
    IF pi > Len(parts) THEN <<>>
    ELSE AddPoly(gi, pi, parts[pi]) \o AddParts(gi, parts, pi + 1)

\* the body of `for g in buildings.geometry`
EmitGeom(g, gi) ==
    IF g.kind = "Polygon" THEN AddPoly(gi, 1, g.parts[1])
    ELSE IF g.kind = "MultiPolygon" THEN AddParts(gi, g.parts, 1)
    ELSE <<>>

RECURSIVE EmitBuildings(_, _)
EmitBuildings(buildings, gi) ==
    IF gi > Len(buildings) THEN <<>>
    ELSE EmitGeom(buildings[gi], gi) \o EmitBuildings(buildings, gi + 1)

\* `for ln in roads.geometry`
EmitRoads(roads) == [i \in 1..Len(roads) |-> Polyline("ROAD", <<roads[i], 1, 0>>)]

\* the modelspace of the document handed to doc.saveas
Document(buildings, roads) == EmitBuildings(buildings, 1) \o EmitRoads(roads)

\* ------------------------------------------------ exceptions and responses
Exc(cls, msg) == [cls |-> cls, msg |-> msg]
NoExc == Exc("", "")

Ok(v) == [ok |-> TRUE, val |-> v, exc |-> NoExc]
Err(cls, msg, v) == [ok |-> FALSE, val |-> v, exc |-> Exc(cls, msg)]

Body(keys, error, status, url) ==
    [keys |-> keys, error |-> error, status |-> status, download_url |-> url]

NoResponse == [status |-> 0, body |-> Body({}, "", "", <<>>)]

\* jsonify(error="missing ?place"), 400
MissingPlaceResponse == [status |-> 400, body |-> Body({"error"}, "missing ?place", "", <<>>)]

\* jsonify(status="ok", download_url=f"/files/{fname}")
OkResponse(fname) ==
    [status |-> 200, body |-> Body({"status", "download_url"}, "", "ok", DownloadUrl(fname))]

\* make_dxf catches nothing: an exception that leaves it reaches the
\* framework, which answers 500 with its fixed page, not with the message
JsonErrorResponse(e) == [status |-> 500, body |-> Body({"error"}, e.msg, "", <<>>)]
Unhandled(e) == [status |-> 500, body |-> Body({"html"}, "Internal Server Error", "", <<>>)]

\* ------------------------------------------------------------ environment
GeoPoints == { <<27, 81>>, <<-3, 10>> }

GeoErrors ==
    { Err("IndexError", "list index out of range", <<0, 0>>),
      Err("HTTPError", "503 Server Error", <<0, 0>>) }

ProjOutcomes == { Ok(<<>>), Err("CRSError", "Invalid projection", <<>>) }

ApiErrors ==
    { Err("KeyError", "'layers'", <<>>),
      Err("ConnectionError", "extract api unreachable", <<>>) }

PqErrors == { Err("IOException", "parquet scan failed", <<>>) }

RoadErrors == { Err("HTTPError", "504 Server Error", <<>>) }

OpenOutcomes == { Ok(<<>>), Err("PermissionError", "Permission denied", <<>>) }

WriteOutcomes == { Ok(<<>>), Err("OSError", "No space left on device", <<>>) }

Geoms ==
    {Polygon(0), Polygon(1), OtherGeom}
        \cup {MultiPolygon(ps) : ps \in StringsUpTo({0, 1}, 2)}

RoadSets == {[i \in 1..n |-> i] : n \in 0..MaxRoads}

SomeBuildings == { <<>>, <<Polygon(1), MultiPolygon(<<0, 1>>)>> }

\* what the external services may answer
Env(geo, api, pq, roads) ==
    [geo |-> geo, proj |-> ProjOutcomes, api |-> api, pq |-> pq, roads |-> roads,
     open |-> OpenOutcomes, write |-> WriteOutcomes]

EnvFull ==
    Env({Ok(p) : p \in GeoPoints} \cup GeoErrors,
        {Ok(b) : b \in SomeBuildings} \cup ApiErrors,
        {Ok(b) : b \in SomeBuildings} \cup PqErrors,
        {Ok(rs) : rs \in RoadSets} \cup RoadErrors)

EnvGeom ==
    Env({Ok(<<27, 81>>)} \cup GeoErrors,
        {Ok(b) : b \in StringsUpTo(Geoms, MaxBldg)} \cup ApiErrors,
        {Ok(b) : b \in StringsUpTo(Geoms, MaxBldg)} \cup PqErrors,
        {Ok(rs) : rs \in RoadSets} \cup RoadErrors)

EnvConc ==
    Env({Ok(<<27, 81>>), Err("IndexError", "list index out of range", <<0, 0>>)},
        {Ok(<<Polygon(0)>>), Ok(<<>>)} \cup {Err("KeyError", "'layers'", <<>>)},
        {Ok(<<>>)} \cup PqErrors,
        {Ok(rs) : rs \in RoadSets} \cup RoadErrors)

\* ------------------------------------------------------------------ state
VARIABLES
    pc,       \* where each request's make_dxf stands
    args,     \* request.args of each request
    loc,      \* the local variables of make_dxf
    resp,     \* the response returned, NoResponse until then
    raised,   \* the exception that left make_dxf
    calls,    \* the outbound calls made, in order
    log,      \* the log records written
    wrote,    \* the files each request has opened for writing
    files     \* the file system: file -> its data and its last writer

vars == <<pc, args, loc, resp, raised, calls, log, wrote, files>>

NoLocals ==
    [place |-> <<>>, buf |-> 0, latlon |-> <<0, 0>>, xy |-> <<0, 0>>,
     aoi |-> <<>>, bbox4326 |-> <<>>, buildings |-> <<>>, roads |-> <<>>,
     doc |-> <<>>, fname |-> <<>>, source |-> ""]

Call(svc, q, bbox, out) == [svc |-> svc, q |-> q, bbox |-> bbox, out |-> out]

NoFiles == [k \in {} |-> 0]

\* a file left by an earlier request for the place "a"
OldFile ==
    (<< << <<"t", "m", "p">> >>, <<"a", ".", "d", "x", "f">> >>
        :> [data |-> <<Polyline("OLD", <<0, 0, 0>>), Polyline("OLD", <<0, 0, 1>>)>>,
            last |-> 0])

InitWith(active, places, buffers) ==
    /\ pc = [r \in Reqs |-> IF r \in active THEN "start" ELSE "idle"]
    /\ args \in [Reqs -> [place : places \cup {NoArg}, buffer : buffers \cup {NoArg}]]
    /\ \A r \in Reqs \ active : args[r] = [place |-> NoArg, buffer |-> NoArg]
    /\ loc = [r \in Reqs |-> NoLocals]
    /\ resp = [r \in Reqs |-> NoResponse]
    /\ raised = [r \in Reqs |-> NoExc]
    /\ calls = [r \in Reqs |-> <<>>]
    /\ log = [r \in Reqs |-> <<>>]
    /\ wrote = [r \in Reqs |-> {}]
    /\ files \in {NoFiles, OldFile}

\* an exception leaves make_dxf
Raise(r, e) ==
    /\ raised' = [raised EXCEPT ![r] = e]
    /\ resp' = [resp EXCEPT ![r] = Unhandled(e)]
    /\ pc' = [pc EXCEPT ![r] = "done"]

\* ---------------------------------------------------------------- actions
\* lines 84-86: the place parameter is missing, empty or blank
MissingPlace(r) ==
    /\ pc[r] = "start"
    /\ PlaceMissing(Strip(ArgsGet(args[r].place, <<>>)))
    /\ resp' = [resp EXCEPT ![r] = MissingPlaceResponse]
    /\ pc' = [pc EXCEPT ![r] = "done"]
    /\ UNCHANGED <<args, loc, raised, calls, log, wrote, files>>

\* line 87: float() rejects the buffer parameter
BadBuffer(r) ==
    /\ pc[r] = "start"
    /\ ~PlaceMissing(Strip(ArgsGet(args[r].place, <<>>)))
    /\ ~BufferOk(args[r].buffer)
    /\ Raise(r, Exc("ValueError", "could not convert string to float"))
    /\ UNCHANGED <<args, loc, calls, log, wrote, files>>

\* lines 84-87: place and buf are set
Accept(r) ==
    /\ pc[r] = "start"
    /\ ~PlaceMissing(Strip(ArgsGet(args[r].place, <<>>)))
    /\ BufferOk(args[r].buffer)
    /\ loc' = [loc EXCEPT ![r].place = Strip(ArgsGet(args[r].place, <<>>)),
                          ![r].buf = BufferValue(args[r].buffer)]
    /\ pc' = [pc EXCEPT ![r] = "geocode"]
    /\ UNCHANGED <<args, resp, raised, calls, log, wrote, files>>

\* line 89, geocode(place) returns
GeocodeOk(r, E) ==
    /\ pc[r] = "geocode"
    /\ \E o \in E.geo :
        /\ o.ok
        /\ loc' = [loc EXCEPT ![r].latlon = o.val]
        /\ log' = [log EXCEPT ![r] = Append(@, <<"GEO", "">>)]
        /\ calls' = [calls EXCEPT ![r] = Append(@, Call("geocode", loc[r].place, <<>>, o))]
    /\ pc' = [pc EXCEPT ![r] = "reproject"]
    /\ UNCHANGED <<args, resp, raised, wrote, files>>

\* line 89, geocode(place) raises (no match: r.json()[0]; or the request)
GeocodeFail(r, E) ==
    /\ pc[r] = "geocode"
    /\ \E o \in E.geo :
        /\ ~o.ok
        /\ Raise(r, o.exc)
        /\ calls' = [calls EXCEPT ![r] = Append(@, Call("geocode", loc[r].place, <<>>, o))]
    /\ UNCHANGED <<args, loc, log, wrote, files>>

\* lines 90-92: the point is projected, buffered and the box taken back
ReprojectOk(r, E) ==
    /\ pc[r] = "reproject"
    /\ \E o \in E.proj : o.ok
    /\ LET xy == Transform(loc[r].latlon[2], loc[r].latlon[1])
           aoi == Aoi(xy, loc[r].buf)
       IN  loc' = [loc EXCEPT ![r].xy = xy, ![r].aoi = aoi,
                              ![r].bbox4326 = BBox4326(aoi)]
    /\ pc' = [pc EXCEPT ![r] = "primary"]
    /\ UNCHANGED <<args, resp, raised, calls, log, wrote, files>>

ReprojectFail(r, E) ==
    /\ pc[r] = "reproject"
    /\ \E o \in E.proj : ~o.ok /\ Raise(r, o.exc)
    /\ UNCHANGED <<args, loc, calls, log, wrote, files>>

\* get_buildings, line 66: what follows `return extract_buildings_api(bbox)`
AfterPrimaryOkFallback == "fallback"
AfterPrimaryOk == "roads"

\* get_buildings, lines 67-69: what follows an exception of the primary
AfterPrimaryFail == "fallback"

\* get_buildings, line 69: the box handed to extract_buildings_parquet
FallbackBBoxShifted(bbox) == [i \in 1..Len(bbox) |-> bbox[i] + 1]
FallbackBBox(bbox) == bbox

\* lines 94-95: what follows an exception that leaves get_buildings
AfterBuildingsFailGoOn == "roads"
AfterBuildingsFail == "done"

\* lines 95-108: what follows an exception that leaves overpass_roads
AfterRoadsFailGoOn == "emit"
AfterRoadsFail == "done"

\* overpass_roads, line 72: s, w, n, e
RoadQuery(bbox) == <<bbox[2], bbox[1], bbox[4], bbox[3]>>

\* line 94, get_buildings: extract_buildings_api returns
PrimaryOk(r, E) ==
    /\ pc[r] = "primary"
    /\ \E o \in E.api :
        /\ o.ok
        /\ loc' = [loc EXCEPT ![r].buildings = o.val, ![r].source = "api"]
        /\ calls' = [calls EXCEPT ![r] = Append(@, Call("api", <<>>, loc[r].bbox4326, o))]
    /\ log' = [log EXCEPT ![r] = Append(@, <<"API", "">>)]
    /\ pc' = [pc EXCEPT ![r] = AfterPrimaryOk]
    /\ UNCHANGED <<args, resp, raised, wrote, files>>

\* lines 67-68: extract_buildings_api raises, the class name is logged
PrimaryFail(r, E) ==
    /\ pc[r] = "primary"
    /\ \E o \in E.api :
        /\ ~o.ok
        /\ log' = [log EXCEPT
                      ![r] = Append(Append(@, <<"API", "">>), <<"WARN", o.exc.cls>>)]
        /\ calls' = [calls EXCEPT ![r] = Append(@, Call("api", <<>>, loc[r].bbox4326, o))]
    /\ pc' = [pc EXCEPT ![r] = AfterPrimaryFail]
    /\ UNCHANGED <<args, loc, resp, raised, wrote, files>>

\* line 69: extract_buildings_parquet returns (an empty frame included)
FallbackOk(r, E) ==
    /\ pc[r] = "fallback"
    /\ \E o \in E.pq :
        /\ o.ok
        /\ loc' = [loc EXCEPT ![r].buildings = o.val, ![r].source = "parquet"]
        /\ calls' = [calls EXCEPT
                        ![r] = Append(@, Call("parquet", <<>>,
                                              FallbackBBox(loc[r].bbox4326), o))]
    /\ log' = [log EXCEPT ![r] = Append(@, <<"SLOW", "">>)]
    /\ pc' = [pc EXCEPT ![r] = "roads"]
    /\ UNCHANGED <<args, resp, raised, wrote, files>>

\* line 69: extract_buildings_parquet raises, and so does get_buildings
FallbackFail(r, E) ==
    /\ pc[r] = "fallback"
    /\ \E o \in E.pq :
        /\ ~o.ok
        /\ raised' = [raised EXCEPT ![r] = o.exc]
        /\ resp' = [resp EXCEPT ![r] = Unhandled(o.exc)]
        /\ calls' = [calls EXCEPT
                        ![r] = Append(@, Call("parquet", <<>>,
                                              FallbackBBox(loc[r].bbox4326), o))]
    /\ log' = [log EXCEPT ![r] = Append(@, <<"SLOW", "">>)]
    /\ pc' = [pc EXCEPT ![r] = AfterBuildingsFail]
    /\ UNCHANGED <<args, loc, wrote, files>>

\* line 95: overpass_roads returns
RoadsOk(r, E) ==
    /\ pc[r] = "roads"
    /\ \E o \in E.roads :
        /\ o.ok
        /\ loc' = [loc EXCEPT ![r].roads = o.val]
        /\ calls' = [calls EXCEPT
                        ![r] = Append(@, Call("overpass", RoadQuery(loc[r].bbox4326),
                                              loc[r].bbox4326, o))]
    /\ log' = [log EXCEPT ![r] = Append(@, <<"RES", "">>)]
    /\ pc' = [pc EXCEPT ![r] = "emit"]
    /\ UNCHANGED <<args, resp, raised, wrote, files>>

\* line 95: overpass_roads raises
RoadsFail(r, E) ==
    /\ pc[r] = "roads"
    /\ \E o \in E.roads :
        /\ ~o.ok
        /\ raised' = [raised EXCEPT ![r] = o.exc]
        /\ resp' = [resp EXCEPT ![r] = Unhandled(o.exc)]
        /\ calls' = [calls EXCEPT
                        ![r] = Append(@, Call("overpass", RoadQuery(loc[r].bbox4326),
                                              loc[r].bbox4326, o))]
    /\ pc' = [pc EXCEPT ![r] = AfterRoadsFail]
    /\ UNCHANGED <<args, loc, log, wrote, files>>

\* lines 97-106: the file name and the document
Emit(r) ==
    /\ pc[r] = "emit"
    /\ loc' = [loc EXCEPT ![r].fname = FName(loc[r].place),
                          ![r].doc = Document(loc[r].buildings, loc[r].roads)]
    /\ pc' = [pc EXCEPT ![r] = "open"]
    /\ UNCHANGED <<args, resp, raised, calls, log, wrote, files>>

LastWriter(k) == IF k \in DOMAIN files THEN files[k].last ELSE 0

\* a write at offset 0 of a file that holds `old`
Overlay(new, old) == new \o SubSeq(old, Len(new) + 1, Len(old))

\* line 108, doc.saveas opens the file for writing: created or truncated
OpenOk(r, E) ==
    /\ pc[r] = "open"
    /\ FileOf(loc[r].fname).ok
    /\ \E o \in E.open : o.ok
    /\ LET k == FileOf(loc[r].fname).key
       IN  /\ files' = (k :> [data |-> <<>>, last |-> LastWriter(k)]) @@ files
           /\ wrote' = [wrote EXCEPT ![r] = @ \cup {k}]
    /\ pc' = [pc EXCEPT ![r] = "write"]
    /\ UNCHANGED <<args, loc, resp, raised, calls, log>>

\* line 108, the open fails: a missing directory, or the system refuses
OpenFail(r, E) ==
    /\ pc[r] = "open"
    /\ \/ /\ ~FileOf(loc[r].fname).ok
          /\ Raise(r, Exc("FileNotFoundError", "No such file or directory"))
       \/ /\ FileOf(loc[r].fname).ok
          /\ \E o \in E.open : ~o.ok /\ Raise(r, o.exc)
    /\ UNCHANGED <<args, loc, calls, log, wrote, files>>

\* lines 108-110: the document is written and the download link returned
WriteOk(r, E) ==
    /\ pc[r] = "write"
    /\ \E o \in E.write : o.ok
    /\ LET k == FileOf(loc[r].fname).key
       IN  files' = [files EXCEPT ![k] = [data |-> Overlay(loc[r].doc, @.data), last |-> r]]
    /\ log' = [log EXCEPT ![r] = Append(@, <<"DXF", "">>)]
    /\ resp' = [resp EXCEPT ![r] = OkResponse(loc[r].fname)]
    /\ pc' = [pc EXCEPT ![r] = "done"]
    /\ UNCHANGED <<args, loc, raised, calls, wrote>>

\* line 108, the write fails after the open: the opened file stays
WriteFail(r, E) ==
    /\ pc[r] = "write"
    /\ \E o \in E.write : ~o.ok /\ Raise(r, o.exc)
    /\ UNCHANGED <<args, loc, calls, log, wrote, files>>

Step(r, E) ==
    \/ MissingPlace(r)
    \/ BadBuffer(r)
    \/ Accept(r)
    \/ GeocodeOk(r, E)
    \/ GeocodeFail(r, E)
    \/ ReprojectOk(r, E)
    \/ ReprojectFail(r, E)
    \/ PrimaryOk(r, E)
    \/ PrimaryFail(r, E)
    \/ FallbackOk(r, E)
    \/ FallbackFail(r, E)
    \/ RoadsOk(r, E)
    \/ RoadsFail(r, E)
    \/ Emit(r)
    \/ OpenOk(r, E)
    \/ OpenFail(r, E)
    \/ WriteOk(r, E)
    \/ WriteFail(r, E)

\* one request, every place and buffer parameter
Init == InitWith({1}, StringsUpTo(PlaceChars, MaxLen), StringsUpTo(BufChars, MaxBufLen))
Next == \E r \in Reqs : Step(r, EnvFull)
Spec == Init /\ [][Next]_vars

\* one request, every collection of building geometries
InitGeom == InitWith({1}, {<<"a">>, <<"a", " ", "a">>}, {<<"5">>, <<"-">>})
NextGeom == \E r \in Reqs : Step(r, EnvGeom)
SpecGeom == InitGeom /\ [][NextGeom]_vars

\* two requests side by side
ConcPlaces == {<<"a">>, <<" ", "a">>, <<".", "/", "a">>, <<"a", " ", "a">>, <<"a", "a">>}
InitConc == InitWith(Reqs, ConcPlaces, {<<"-">>})
NextConc == \E r \in Reqs : Step(r, EnvConc)
SpecConc == InitConc /\ [][NextConc]_vars

\* ----------------------------------------------------- reading the state
Done(r) == pc[r] = "done"

Idx(r, svc) == {i \in DOMAIN calls[r] : calls[r][i].svc = svc}

Succeeded(r, svc) == \E i \in Idx(r, svc) : calls[r][i].out.ok
Failed(r, svc) == \E i \in Idx(r, svc) : ~calls[r][i].out.ok

\* the place parameter is missing, empty or made of spaces only
Blank(a) == a = NoArg \/ \A i \in 1..Len(a) : a[i] = " "

\* lines 97-106 have run: the file name and the document exist
Emitted(r) == loc[r].fname # <<>>

WriteExcs == {o.exc : o \in {w \in WriteOutcomes : ~w.ok}}

\* ------------------------------------------------------------------ C1
\* C1: a request whose place parameter is missing, empty or blank makes no
\* outbound call and writes no file, whatever its buffer parameter, and
\* ends with the response 400 {error: "missing ?place"}.
C1_BlankPlaceIs400 ==
    \A r \in Reqs :
        (pc[r] # "idle" /\ Blank(args[r].place)) =>
            /\ calls[r] = <<>>
            /\ wrote[r] = {}
            /\ pc[r] \in {"start", "done"}
            /\ Done(r) => resp[r] = MissingPlaceResponse

C1_Witness ==
    \E r \in Reqs :
        /\ Done(r)
        /\ args[r].place = <<" ", " ">>
        /\ ~BufferOk(args[r].buffer)
        /\ resp[r].status = 400

\* ------------------------------------------------------------------ C2
\* C2: when the primary building source has raised, the fallback is called
\* exactly once, next, with the box the primary was given, the primary is
\* not called again, and what the fallback returns (an empty collection
\* included) is the buildings of the request.
C2_FallbackOnceSameBox ==
    \A r \in Reqs : \A i \in Idx(r, "api") :
        ~calls[r][i].out.ok =>
            \/ pc[r] = "fallback" /\ i = Len(calls[r]) /\ Idx(r, "parquet") = {}
            \/ /\ Idx(r, "api") = {i}
               /\ Idx(r, "parquet") = {i + 1}
               /\ calls[r][i + 1].bbox = calls[r][i].bbox
               /\ calls[r][i].bbox = loc[r].bbox4326
               /\ IF calls[r][i + 1].out.ok
                  THEN /\ loc[r].buildings = calls[r][i + 1].out.val
                       /\ loc[r].source = "parquet"
                       /\ pc[r] \in {"roads", "emit", "open", "write", "done"}
                  ELSE Done(r) /\ raised[r] = calls[r][i + 1].out.exc

C2_Witness ==
    \E r \in Reqs :
        /\ Failed(r, "api")
        /\ Succeeded(r, "parquet")
        /\ loc[r].buildings = <<>>
        /\ resp[r].status = 200

\* ------------------------------------------------------------------ C3
\* C3: in a request no external service is called twice, the geocoder comes
\* first, the primary building source comes before the fallback and the
\* roads, and the fallback is called only right after a primary that raised.
C3_OrderAndNoRetry ==
    \A r \in Reqs :
        /\ \A svc \in {"geocode", "api", "parquet", "overpass"} :
              Cardinality(Idx(r, svc)) <= 1
        /\ \A i \in DOMAIN calls[r] :
              /\ calls[r][i].svc = "geocode" => i = 1
              /\ calls[r][i].svc = "api" => i = 2
              /\ calls[r][i].svc = "parquet" =>
                    i = 3 /\ calls[r][2].svc = "api" /\ ~calls[r][2].out.ok
              /\ calls[r][i].svc = "overpass" =>
                    /\ Idx(r, "api") # {}
                    /\ calls[r][i - 1].svc \in {"api", "parquet"}
                    /\ calls[r][i - 1].out.ok
        /\ Succeeded(r, "api") => Idx(r, "parquet") = {}

C3_Witness ==
    \E r \in Reqs :
        /\ Done(r)
        /\ resp[r].status = 200
        /\ Len(calls[r]) = 4
        /\ Failed(r, "api")
        /\ Succeeded(r, "parquet")

\* ------------------------------------------------------------------ C4
\* C4: a finished request has answered 200 with a download link, 400 or
\* 500, and when an exception left the pipeline the answer is 500 with the
\* payload {error: <the exception's message>}.
C4_ErrorPayload ==
    \A r \in Reqs :
        Done(r) =>
            /\ resp[r].status \in {200, 400, 500}
            /\ resp[r].status = 200 <=> resp[r].body.download_url # <<>>
            /\ raised[r] # NoExc => resp[r] = JsonErrorResponse(raised[r])

\* ------------------------------------------------------------------ C5
\* C5: the document holds, on layer BLDG, one polyline for each Polygon and
\* one for each part of each MultiPolygon of the buildings, each of them an
\* exterior ring; other geometries and interior rings give none.
ExpectedRings(buildings) ==
    {<<gi, 1, 0>> : gi \in {g \in DOMAIN buildings : buildings[g].kind = "Polygon"}}
        \cup UNION {{<<gi, p, 0>> : p \in DOMAIN buildings[gi].parts} :
                        gi \in {g \in DOMAIN buildings : buildings[g].kind = "MultiPolygon"}}

RECURSIVE ExpectedCount(_)
ExpectedCount(buildings) ==
    IF buildings = <<>> THEN 0
    ELSE LET g == Head(buildings)
         IN  (IF g.kind = "Polygon" THEN 1
              ELSE IF g.kind = "MultiPolygon" THEN Len(g.parts) ELSE 0)
                 + ExpectedCount(Tail(buildings))

BldgIdx(doc) == {i \in DOMAIN doc : doc[i].layer = "BLDG"}

C5_OnePolylinePerExterior ==
    \A r \in Reqs :
        Emitted(r) =>
            LET doc == loc[r].doc
                b == loc[r].buildings
            IN  /\ Cardinality(BldgIdx(doc)) = ExpectedCount(b)
                /\ {doc[i].ring : i \in BldgIdx(doc)} = ExpectedRings(b)
                /\ \A i \in BldgIdx(doc) : doc[i].ring[3] = 0
                /\ \A gi \in DOMAIN b :
                      Cardinality({i \in BldgIdx(doc) : doc[i].ring[1] = gi})
                          = (IF b[gi].kind = "Polygon" THEN 1
                             ELSE IF b[gi].kind = "MultiPolygon" THEN Len(b[gi].parts)
                             ELSE 0)

C5_Witness ==
    \E r \in Reqs :
        /\ Emitted(r)
        /\ loc[r].buildings = <<MultiPolygon(<<1, 0>>), Polygon(1)>>
        /\ Cardinality(BldgIdx(loc[r].doc)) = 3

\* ------------------------------------------------------------------ C6
AllSourcesSucceeded(r) ==
    /\ Succeeded(r, "geocode")
    /\ Succeeded(r, "api") \/ Succeeded(r, "parquet")
    /\ Succeeded(r, "overpass")

Untouched == files \in {NoFiles, OldFile}

\* C6 as stated: a request opens its output file only after the geocoder, a
\* building source and the road source have succeeded, and a request that
\* ends in 400 or 500 has created or overwritten no file and returns no
\* download link.
C6_NoFileOnAnyError ==
    \A r \in Reqs :
        /\ wrote[r] # {} => AllSourcesSucceeded(r)
        /\ (Done(r) /\ resp[r].status \in {400, 500}) =>
              /\ wrote[r] = {}
              /\ resp[r].body.download_url = <<>>

\* C6 as amended: a request opens its output file only after the geocoder,
\* a building source and the road source have succeeded; a request that ends
\* in 400, or in 500 for a failure other than that of the write into the
\* file already opened, has created or overwritten no file; no failed
\* request returns a download link; while no request has opened a file the
\* file system is as it was.
C6_NoFileBeforeWrite ==
    /\ \A r \in Reqs :
        /\ wrote[r] # {} => AllSourcesSucceeded(r) /\ Emitted(r)
        /\ (Done(r) /\ resp[r].status \in {400, 500}) =>
              /\ resp[r].body.download_url = <<>>
              /\ raised[r] \notin WriteExcs => wrote[r] = {}
    /\ (\A r \in Reqs : wrote[r] = {}) => Untouched

C6_Witness ==
    \E r \in Reqs :
        /\ Done(r)
        /\ resp[r].status = 500
        /\ Failed(r, "overpass")
        /\ loc[r].buildings # <<>>
        /\ wrote[r] = {}
        /\ files = OldFile

C8_BufferPositive ==
    \A r \in Reqs : loc[r].aoi # <<>> => loc[r].buf > 0

\* ------------------------------------------------------------------ C9
\* C9: the area of interest is the square [x-b, x+b] x [y-b, y+b] around the
\* projected point: it contains the point, its extent is 2b on each axis,
\* and the box handed to the building and road sources is the extent of its
\* corners taken back to geographic coordinates.
C9_AoiSquare ==
    \A r \in Reqs :
        loc[r].aoi # <<>> =>
            LET x == loc[r].xy[1]
                y == loc[r].xy[2]
                b == loc[r].buf
                tb == TotalBounds(loc[r].aoi)
                geo == {ToGeo(<<cx, cy>>) : cx \in {x - b, x + b}, cy \in {y - b, y + b}}
            IN  /\ tb = <<x - b, y - b, x + b, y + b>>
                /\ tb[1] <= x /\ x <= tb[3] /\ tb[2] <= y /\ y <= tb[4]
                /\ tb[3] - tb[1] = 2 * b /\ tb[4] - tb[2] = 2 * b
                /\ loc[r].bbox4326 =
                      <<Min({g[1] : g \in geo}), Min({g[2] : g \in geo}),
                        Max({g[1] : g \in geo}), Max({g[2] : g \in geo})>>
                /\ \A i \in Idx(r, "api") \cup Idx(r, "parquet") \cup Idx(r, "overpass") :
                      calls[r][i].bbox = loc[r].bbox4326

\* ----------------------------------------------------------------- C10
Quiescent == \A r \in Reqs : pc[r] \in {"idle", "done"}

\* C10: two requests open the same file only if their sanitized place names
\* are the same, and once every request has ended each file saved holds the
\* document of the request that saved it last.
C10_SameFileSameName ==
    /\ \A r1, r2 \in Reqs :
          (r1 # r2 /\ wrote[r1] \cap wrote[r2] # {}) =>
              FName(Strip(args[r1].place)) = FName(Strip(args[r2].place))
    /\ Quiescent =>
          \A k \in DOMAIN files :
              files[k].last # 0 => files[k].data = loc[files[k].last].doc

====
